---- MODULE Spec2Model ----
(***************************************************************************)
(* dash-ai-chat: the provider registry (providers.py, DashAIChat.__init__),*)
(* the four-method adapters, and update_convo / generate_speech of the     *)
(* speech examples writing a per-conversation message log.                 *)
(***************************************************************************)
EXTENDS Naturals, Sequences, FiniteSets, TLC

\* ------------------------------------------------------------------ bounds
MaxReq == 2        \* update_convo invocations in one behaviour, free to interleave
MaxConvo == 2      \* conversation ids 1..MaxConvo
MaxClock == 1      \* millisecond timestamps 0..MaxClock
MaxAssign == 2     \* run-time assignments to AI_REGISTRY after construction

NoConvo == 0       \* convo_id=None (absent argument)

Users == {"u1", "u2"}
Texts == {<<"hi">>, <<"yo">>}
ConvoIds == 1..MaxConvo
Exceptions == {"APIConnectionError", "RateLimitError"}
None == "None"

\* ---------------------------------------------------------------- registry
\* A python str key "vendor:api", kept as its pieces around the separator.
StrKey(vendor, api) == [type |-> "str", items |-> <<vendor, ":", api>>]

\* A python tuple key (vendor, api).
TupleKey(vendor, api) == [type |-> "tuple", items |-> <<vendor, api>>]

FourCaps == {"client_factory", "call", "extract", "format_messages"}

\* The classes of providers.py and of the examples: each defines the four methods.
AdapterClasses ==
    {"OpenAIChatCompletions", "OpenAIResponses", "GeminiChatCompletions",
     "AnthropicChatCompletions", "OpenAITextToSpeech", "MyCustomProvider"}

\* The dict entries of DashAIChat.__init__: "call", "extract", "format_messages".
DictEntries == {"dict:chat.completions", "dict:completions"}

\* The capabilities an entry of the given kind provides.
Caps(cls) ==
    IF cls \in DictEntries THEN {"call", "extract", "format_messages"} ELSE FourCaps

\* An adapter instance: its class and which instantiation it is.
Adapter(cls, inst) == [cls |-> cls, inst |-> inst]

\* providers.build_default_registry()
build_default_registry ==
    LET k1 == StrKey("openai", "chat.completions")
        k2 == StrKey("gemini", "chat.completions")
        k3 == StrKey("anthropic", "chat.completions")
    IN  [k \in {k1, k2, k3} |->
            IF k = k1 THEN Adapter("OpenAIChatCompletions", 0)
            ELSE IF k = k2 THEN Adapter("GeminiChatCompletions", 0)
            ELSE Adapter("AnthropicChatCompletions", 0)]

\* self.AI_REGISTRY as DashAIChat.__init__ builds it.
DashAIChat_AI_REGISTRY ==
    LET k1 == TupleKey("openai", "chat.completions")
        k2 == TupleKey("openai", "completions")
    IN  [k \in {k1, k2} |->
            IF k = k1 THEN Adapter("dict:chat.completions", 0)
            ELSE Adapter("dict:completions", 0)]

\* d[k] = v, kept wrong: an existing entry is not replaced (setdefault).
DictSetDefault(d, k, v) ==
    [x \in DOMAIN d \cup {k} |-> IF x \in DOMAIN d THEN d[x] ELSE v]

\* self.AI_REGISTRY[k] = v
DictSetItem(d, k, v) ==
    [x \in DOMAIN d \cup {k} |-> IF x = k THEN v ELSE d[x]]

\* self.AI_REGISTRY[k]: the entry, or KeyError.
DictGetItem(d, k) == IF k \in DOMAIN d THEN d[k] ELSE Adapter("KeyError", 0)

TTSKey == StrKey("openai", "tts")
ChatKey == StrKey("openai", "chat.completions")
ResponsesKey == StrKey("openai", "responses")

VARIABLES
    registry,   \* app.AI_REGISTRY
    phase,      \* "base": DashAIChat.__init__ has run; "ready": the subclass __init__ too
    nassign,    \* adapters instantiated and assigned after DashAIChat.__init__
    latest,     \* per key, the adapter most recently assigned to it (history)
    fs,         \* the files under base_dir: path -> content
    clock,      \* time.time() in milliseconds
    req,        \* the update_convo invocations in flight
    appended,   \* per conversation, the messages handed to add_message (history)
    lastRun,    \* the last four-method run: key, adapter reached, what extract returned
    history,    \* a message history handed to format_messages
    formatted,  \* what format_messages last returned, and for which adapter class
    resolved,   \* ResponsesChat: the provider key of the last update_convo and whether
                \* the registry held it
    tts,        \* the advanced speech example: app._current_tts_settings and the
                \* submissions with their two callbacks
    layout,     \* app.layout, a component tree
    lastSet     \* the last call that installed a layout: __init__ or set_layout, its
                \* argument and the exception it raised (history)

\* The registry, the store and the requests.
core == <<registry, phase, nassign, latest, fs, clock, req, appended, lastRun>>

\* The state of the pure functions and of the other example applications.
\* The layout of the page.
page == <<layout, lastSet>>

aux == <<history, formatted, resolved, tts, page>>

vars == <<core, aux>>

\* ------------------------------------------------------------ the adapters
\* client_factory(): the client, or the exception the constructor raises.
\* OpenAIResponses names OpenAI without importing it; a dict entry has no such method.
ClientFactory(cls, outcome) ==
    IF "client_factory" \notin Caps(cls) THEN "AttributeError"
    ELSE IF cls = "OpenAIResponses" THEN "NameError"
    ELSE outcome

\* call(), kept wrong: the client's exception is caught and replaced.
CallWrapsException(cls, outcome) == IF outcome = "ok" THEN "ok" ELSE "ProviderError"

\* call(client, ...): returns what the client returns and lets what it raises through.
AdapterCall(cls, outcome) == outcome

\* extract(response): the type of what it returns.
ExtractType(cls) ==
    IF cls = "OpenAITextToSpeech" THEN "StreamedResponse" ELSE "str"

\* client_factory, format_messages, call, extract in sequence on one adapter:
\* the type of the result, or the exception that ends the run.
Pipeline(cls, factoryOutcome, clientOutcome) ==
    IF ClientFactory(cls, factoryOutcome) # "ok" THEN ClientFactory(cls, factoryOutcome)
    ELSE IF AdapterCall(cls, clientOutcome) # "ok" THEN AdapterCall(cls, clientOutcome)
    ELSE ExtractType(cls)

\* ------------------------------------------------------ conversation store
UserMsg(text) == [role |-> "user", content |-> text]

AudioMsg(path) == [role |-> "assistant", content |-> <<>>, audio_file |-> path]

ErrorMsg(e) == [role |-> "assistant", content |-> <<"Failed to generate speech: ", e>>]

\* json.dumps of a message: its (key, value) pairs in insertion order.
Serialize(m) ==
    <<<<"role", m.role>>, <<"content", m.content>>>> \o
    (IF "audio_file" \in DOMAIN m THEN <<<<"audio_file", m.audio_file>>>> ELSE <<>>)

\* json.loads of a line: the dict of its pairs.
Parse(line) ==
    [k \in {line[i][1] : i \in 1..Len(line)} |->
        LET i == CHOOSE j \in 1..Len(line) : line[j][1] = k IN line[i][2]]

\* The messages file, kept wrong: the user directory is left out of the path.
MessagesFileNoUser(u, c) == <<"shared", c, "messages.json">>

\* base_dir / user_id / convo_id / messages file
MessagesFile(u, c) == <<u, c, "messages.json">>

\* audio_dir / f"speech_{timestamp}.mp3"
SpeechFilePath(u, c, ts) == <<u, c, "audio", ts>>

\* add_message, kept wrong: the file is rewritten with the new message only.
AddMessageTruncates(f, u, c, m) ==
    LET p == MessagesFile(u, c)
    IN  [x \in DOMAIN f \cup {p} |-> IF x = p THEN <<Serialize(m)>> ELSE f[x]]

\* add_message, kept wrong: the new line is written at the head of the file.
AddMessagePrepends(f, u, c, m) ==
    LET p == MessagesFile(u, c)
        old == IF p \in DOMAIN f THEN f[p] ELSE <<>>
    IN  [x \in DOMAIN f \cup {p} |-> IF x = p THEN <<Serialize(m)>> \o old ELSE f[x]]

\* add_message(user_id, convo_id, message): append one line to the conversation's file.
AddMessage(f, u, c, m) ==
    LET p == MessagesFile(u, c)
        old == IF p \in DOMAIN f THEN f[p] ELSE <<>>
    IN  [x \in DOMAIN f \cup {p} |-> IF x = p THEN Append(old, Serialize(m)) ELSE f[x]]

\* Reloading a conversation: the whole file, parsed line by line.
LoadMessages(f, u, c) ==
    LET p == MessagesFile(u, c)
    IN  IF p \in DOMAIN f THEN [i \in 1..Len(f[p]) |-> Parse(f[p][i])] ELSE <<>>

\* The conversations that exist: those with a messages file.
Conversations(f) ==
    {uc \in Users \X ConvoIds : MessagesFile(uc[1], uc[2]) \in DOMAIN f}

\* get_next_convo_id(user_id): one past the highest id the user has.
get_next_convo_id(f, u) ==
    LET have == {c \in ConvoIds : <<u, c>> \in Conversations(f)}
    IN  IF have = {} THEN 1 ELSE (CHOOSE c \in have : \A d \in have : d <= c) + 1

\* append_raw_response(user_id, conversation_id, str(response_context)): one more
\* line in the conversation's raw-response file.
append_raw_response(f, u, c) ==
    LET p == <<u, c, "raw_api_responses">>
        old == IF p \in DOMAIN f THEN f[p] ELSE <<>>
    IN  [x \in DOMAIN f \cup {p} |-> IF x = p THEN Append(old, <<"response">>) ELSE f[x]]

\* stream_to_file(speech_file_path)
StreamToFile(f, p, text) ==
    [x \in DOMAIN f \cup {p} |-> IF x = p THEN <<"speech", text>> ELSE f[x]]

\* ------------------------------------------------------------ update_convo
\* convo_id or get_next_convo_id, kept wrong: a new id is always allocated.
AlwaysNextConvoId(arg, next) == next

\* convo_id = convo_id or self.get_next_convo_id(user_id)
ConvoIdOrNext(arg, next) == IF arg # NoConvo THEN arg ELSE next

\* except, kept wrong: only one exception class is named.
CatchesOnlyConnectionError(e) == e = "APIConnectionError"

\* except Exception as e
HandlerCatches(e) == TRUE

\* --------------------------------------------------------- format_messages
MaxHist == 2       \* messages in a history handed to format_messages

\* The adapters whose format_messages builds role/content records.
ChatFormatClasses ==
    {"OpenAIChatCompletions", "AnthropicChatCompletions", "MyCustomProvider",
     "dict:chat.completions"}

\* The adapters whose format_messages builds one prompt string.
PromptFormatClasses == {"OpenAIResponses", "dict:completions"}

\* The messages a history is made of: the three the speech examples write, and a
\* system message.
MessagePool ==
    {UserMsg(<<"hi">>), UserMsg(<<"yo">>), AudioMsg(SpeechFilePath("u1", 1, 0)),
     ErrorMsg("RateLimitError"), [role |-> "system", content |-> <<"be brief">>]}

\* [{"role": ..., "content": ...} for m in history], kept wrong: each message is
\* passed on whole.
WholeMessages(h) == h

\* [{"role": m["role"], "content": m["content"]} for m in history]
RoleContentList(h) ==
    [i \in 1..Len(h) |-> [role |-> h[i].role, content |-> h[i].content]]

\* f"{m['role']}: {m['content']}"
Segment(m) == <<m.role, ": ">> \o m.content

\* sep.join(parts), kept wrong: the separator also follows the last part.
JoinTrailing(parts, sep) ==
    LET RECURSIVE go(_)
        go(i) == IF i > Len(parts) THEN <<>> ELSE parts[i] \o <<sep>> \o go(i + 1)
    IN  go(1)

\* sep.join(parts): the parts with sep between each two neighbours.
Join(parts, sep) ==
    LET RECURSIVE go(_)
        go(i) == IF i > Len(parts) THEN <<>>
                 ELSE IF i = Len(parts) THEN parts[i]
                 ELSE parts[i] \o <<sep>> \o go(i + 1)
    IN  go(1)

\* "\n".join(f"{m['role']}: {m['content']}" for m in history)
PromptString(h) == Join([i \in 1..Len(h) |-> Segment(h[i])], "\n")

\* format_messages(history) of each adapter class: role/content records, a prompt
\* string, or (Gemini, TTS) the history itself.
FormatMessages(cls, h) ==
    IF cls \in ChatFormatClasses THEN [kind |-> "list", list |-> RoleContentList(h), prompt |-> <<>>]
    ELSE IF cls \in PromptFormatClasses THEN [kind |-> "str", list |-> <<>>, prompt |-> PromptString(h)]
    ELSE [kind |-> "list", list |-> h, prompt |-> <<>>]

NoFormat == [cls |-> "None", out |-> [kind |-> "none", list |-> <<>>, prompt |-> <<>>]]

\* ------------------------------------------------- the TTS settings (advanced)
MaxSub == 2        \* submissions (Enter pressed in the text area) in one behaviour

\* self._current_tts_settings as __init__ sets it.
DefaultTTSSettings ==
    [model |-> "gpt-4o-mini-tts", voice |-> "alloy", speed |-> "1.0",
     response_format |-> "mp3", instructions |-> None]

\* What the five controls can hold when the user submits.
FormValues ==
    [model : {None, "gpt-4o-mini-tts", "tts-1"}, voice : {None, "nova"},
     speed : {"1.5"}, response_format : {"wav"},
     instructions : {None, "calm"}]

\* python's `value or default`
OrDefault(value, default) == IF value \in {None, ""} THEN default ELSE value

\* The dict store_tts_settings builds from the controls.
SettingsOf(form) ==
    [model |-> OrDefault(form.model, "gpt-4o-mini-tts"),
     voice |-> OrDefault(form.voice, "alloy"),
     speed |-> OrDefault(form.speed, "1.0"),
     response_format |-> OrDefault(form.response_format, "mp3"),
     instructions |-> form.instructions]

\* call_kwargs of generate_speech: instructions are passed only when given and the
\* model is gpt-4o-mini-tts.
CallKwargs(settings) ==
    [model |-> settings.model, voice |-> settings.voice, speed |-> settings.speed,
     response_format |-> settings.response_format,
     instructions |-> IF settings.instructions \notin {None, ""}
                         /\ settings.model = "gpt-4o-mini-tts"
                      THEN settings.instructions ELSE None]

NoSubmission ==
    [submitted |-> FALSE, user |-> "u1", form |-> DefaultTTSSettings, stored |-> FALSE,
     spoken |-> FALSE, kwargs |-> CallKwargs(DefaultTTSSettings)]

\* ---------------------------------------------------------------------------
\* The layout: a tree of components. A component has an id (a string, a dict of
\* a pattern-matching id, or none) and children (a list, one component, a tuple,
\* None, or no such attribute). A string child is a leaf with neither.
\* ---------------------------------------------------------------------------

required_ids ==
    {"burger-menu", "sidebar-offcanvas", "conversation-list", "url",
     "chat_area_div", "user_input_textarea", "new-chat-button"}

StrId(s) == [kind |-> "str", value |-> s]
DictId == [kind |-> "dict", value |-> "pattern"]
NoId == [kind |-> "unset", value |-> ""]

ChildList(items) == [kind |-> "list", items |-> items]
ChildOne(c) == [kind |-> "one", items |-> <<c>>]
ChildTuple(items) == [kind |-> "tuple", items |-> items]
ChildNone == [kind |-> "None", items |-> <<>>]
NoChildrenAttr == [kind |-> "absent", items |-> <<>>]

Component(type, id, children) == [type |-> type, id |-> id, children |-> children]
Text == Component("str", NoId, NoChildrenAttr)

\* sidebar(): the off-canvas with the new-chat button and the conversation list.
sidebar ==
    Component("Offcanvas", StrId("sidebar-offcanvas"),
        ChildList(<<
            Component("Div", StrId("new-chat-button"),
                ChildList(<<Component("I", NoId, ChildNone), Text>>)),
            Component("Div", StrId("conversation-list"), ChildList(<<>>))
        >>))

\* chat_area(), with the id misspelt.
chat_area_hyphen == Component("Div", StrId("chat-area-div"), ChildList(<<>>))

\* chat_area()
chat_area == Component("Div", StrId("chat_area_div"), ChildList(<<>>))

\* input_area()
input_area ==
    Component("Div", NoId,
        ChildList(<<Component("Textarea", StrId("user_input_textarea"), NoChildrenAttr)>>))

\* default_layout()
default_layout ==
    Component("Div", NoId,
        ChildList(<<
            Component("Button", StrId("burger-menu"), ChildOne(Text)),
            sidebar,
            Component("Location", StrId("url"), NoChildrenAttr),
            Component("Div", NoId,
                ChildList(<<
                    Component("Br", NoId, ChildNone),
                    Component("Div", NoId,
                        ChildList(<<
                            Component("Div", NoId,
                                ChildList(<<Component("Loading", NoId, ChildOne(chat_area))>>))
                        >>)),
                    Component("Div", NoId,
                        ChildList(<<Component("Div", NoId, ChildList(<<input_area>>))>>))
                >>))
        >>))

\* What collect_ids returns: a set of ids, or the exception it raised.
Ids(set) == [exc |-> None, ids |-> set]
Raises(e) == [exc |-> e, ids |-> {}]

\* ids |= ...: an exception on either side propagates, the left one first.
Merge(a, b) ==
    IF a.exc # None THEN a
    ELSE IF b.exc # None THEN b
    ELSE Ids(a.ids \cup b.ids)

\* collect_ids(component): the component's own id if it is truthy (set.add of a dict
\* id raises TypeError: a dict is unhashable), then the ids of its children: each
\* one of a list, or the one child otherwise. A tuple of children is passed
\* as one object, which has neither an id nor children.
RECURSIVE collect_ids(_)
collect_ids(component) ==
    LET own == IF component.id.kind = "dict" THEN Raises("TypeError")
               ELSE IF component.id.kind = "str" /\ component.id.value # ""
                    THEN Ids({component.id.value})
                    ELSE Ids({})
        children == component.children
        RECURSIVE each(_)
        each(n) == IF n = 0 THEN Ids({})
                   ELSE Merge(each(n - 1), collect_ids(children.items[n]))
        below == IF children.kind = "list" THEN each(Len(children.items))
                 ELSE IF children.kind = "one" THEN collect_ids(children.items[1])
                 ELSE Ids({})
    IN  Merge(own, below)

\* _validate_layout() on a layout: the exception raised, None if none.
validate_layout(l) ==
    LET found == collect_ids(l)
    IN  IF found.exc # None THEN found.exc
        ELSE IF required_ids \ found.ids # {} THEN "ValueError"
        ELSE None

\* The layouts handed to set_layout: the components with the given ids, in the
\* order below, put under a root in several ways.
IdOrder ==
    <<"burger-menu", "sidebar-offcanvas", "conversation-list", "url",
      "chat_area_div", "user_input_textarea", "new-chat-button">>

Leaves(present) ==
    LET chosen == SelectSeq(IdOrder, LAMBDA i : i \in present)
    IN  [n \in 1..Len(chosen) |-> Component("Div", StrId(chosen[n]), ChildNone)]

Shapes == {"flat", "nested", "tuple", "pattern", "default", "rootid"}

Shaped(shape, present) ==
    CASE shape = "flat" -> Component("Div", NoId, ChildList(Leaves(present)))
      [] shape = "nested" ->
            Component("Div", NoId,
                ChildOne(Component("Loading", NoId,
                    ChildOne(Component("Div", NoId, ChildList(Leaves(present)))))))
      [] shape = "tuple" -> Component("Div", NoId, ChildTuple(Leaves(present)))
      [] shape = "pattern" ->
            Component("Div", NoId,
                ChildList(Leaves(present) \o <<Component("Button", DictId, ChildNone)>>))
      [] shape = "default" -> default_layout
      [] shape = "rootid" ->
            IF present = {} THEN Component("Div", NoId, ChildNone)
            ELSE LET first == CHOOSE i \in present : TRUE
                 IN  Component("Div", StrId(first), ChildList(Leaves(present \ {first})))

Layouts == {Shaped(shape, present) : shape \in Shapes, present \in SUBSET required_ids}

\* __init__: self.layout = self.default_layout(); self._validate_layout()
Constructed ==
    [op |-> "__init__", arg |-> default_layout, exc |-> validate_layout(default_layout)]


IdleReq ==
    [pc |-> "idle", user |-> "u1", text |-> <<>>, arg |-> NoConvo, convo |-> NoConvo,
     ts |-> 0, calls |-> 0, adapter |-> Adapter("None", 0), clientExc |-> None,
     caught |-> None, escaped |-> None, ret |-> NoConvo, wrote |-> <<>>,
     overlap |-> FALSE]

NoRun ==
    [ran |-> FALSE, key |-> TTSKey, adapter |-> Adapter("None", 0),
     expected |-> Adapter("None", 0), factory |-> "ok", client |-> "ok", result |-> None]

Init ==
    /\ registry \in {build_default_registry, DashAIChat_AI_REGISTRY}
    /\ phase = "base"
    /\ nassign = 0
    /\ latest = registry
    /\ fs = <<>>
    /\ clock = 0
    /\ req = [r \in 1..MaxReq |-> IdleReq]
    /\ appended = [uc \in Users \X ConvoIds |-> <<>>]
    /\ lastRun = NoRun
    /\ history = <<>>
    /\ formatted = NoFormat
    /\ tts = [current |-> DefaultTTSSettings, sub |-> [n \in 1..MaxSub |-> NoSubmission]]
    /\ resolved = [asked |-> FALSE, given |-> FALSE, key |-> ResponsesKey, found |-> FALSE]
    /\ layout = default_layout
    /\ lastSet = Constructed

\* self.AI_REGISTRY[k] = cls(): a new instance of cls is assigned under k.
AssignAdapter(k, cls) ==
    /\ nassign < MaxAssign
    /\ registry' = DictSetItem(registry, k, Adapter(cls, nassign + 1))
    /\ latest' = [x \in DOMAIN latest \cup {k} |->
                    IF x = k THEN Adapter(cls, nassign + 1) ELSE latest[x]]
    /\ nassign' = nassign + 1

\* SpeechGeneratorChat.__init__ after super().__init__(): the TTS provider is registered.
SubclassInit ==
    /\ phase = "base"
    /\ AssignAdapter(TTSKey, "OpenAITextToSpeech")
    /\ phase' = "ready"
    /\ UNCHANGED <<fs, clock, req, appended, lastRun>>
    /\ UNCHANGED aux

\* app.AI_REGISTRY["openai:chat.completions"] = MyCustomProvider(), the documented override.
OverrideProvider ==
    /\ phase = "ready"
    /\ AssignAdapter(ChatKey, "MyCustomProvider")
    /\ UNCHANGED <<phase, fs, clock, req, appended, lastRun>>
    /\ UNCHANGED aux

\* A later re-registration of the TTS provider under its existing key.
ReplaceTTS ==
    /\ phase = "ready"
    /\ AssignAdapter(TTSKey, "OpenAITextToSpeech")
    /\ UNCHANGED <<phase, fs, clock, req, appended, lastRun>>
    /\ UNCHANGED aux

\* One request's lookup of a registered key and the four methods run in sequence.
RunAdapter ==
    /\ phase = "ready"
    /\ \E k \in DOMAIN registry, fo \in {"ok", "OpenAIError"}, co \in {"ok"} \cup Exceptions :
          LET a == DictGetItem(registry, k)
          IN  lastRun' = [ran |-> TRUE, key |-> k, adapter |-> a, expected |-> latest[k],
                          factory |-> fo, client |-> co,
                          result |-> Pipeline(a.cls, fo, co)]
    /\ UNCHANGED <<registry, phase, nassign, latest, fs, clock, req, appended>>
    /\ UNCHANGED aux

\* time passes
Tick ==
    /\ clock < MaxClock
    /\ clock' = clock + 1
    /\ UNCHANGED <<registry, phase, nassign, latest, fs, req, appended, lastRun>>
    /\ UNCHANGED aux

\* update_convo is entered (the invocations are numbered in the order they enter):
\* provider_spec, provider_model and the conversation id are
\* settled (convo_id or get_next_convo_id).
Enter(r) ==
    /\ phase = "ready"
    /\ req[r].pc = "idle"
    /\ \A s \in 1..(r - 1) : req[s].pc # "idle"
    /\ \E u \in Users, text \in Texts, arg \in {NoConvo} \cup ConvoIds :
          LET c == ConvoIdOrNext(arg, get_next_convo_id(fs, u))
          IN  /\ c \in ConvoIds
              /\ req' = [req EXCEPT ![r] =
                            [IdleReq EXCEPT !.pc = "entered", !.user = u, !.text = text,
                                            !.arg = arg, !.convo = c]]
    /\ UNCHANGED <<registry, phase, nassign, latest, fs, clock, appended, lastRun>>
    /\ UNCHANGED aux

\* Whether another update_convo on r's conversation has written its user message and
\* not yet its assistant message (history, kept with the request).
Overlaps(r) ==
    \E s \in 1..MaxReq \ {r} :
        /\ req[s].user = req[r].user
        /\ req[s].convo = req[r].convo
        /\ req[s].pc \in {"user_written", "calling"}

\* The user message is built and written: add_message(user_id, convo_id, user_msg).
WriteUser(r) ==
    /\ req[r].pc = "entered"
    /\ LET q == req[r]
       IN  /\ fs' = AddMessage(fs, q.user, q.convo, UserMsg(q.text))
           /\ appended' = [appended EXCEPT ![<<q.user, q.convo>>] =
                                Append(@, UserMsg(q.text))]
           /\ req' = [req EXCEPT ![r].pc = "user_written",
                                 ![r].wrote = <<UserMsg(q.text)>>,
                                 ![r].overlap = Overlaps(r)]
    /\ UNCHANGED <<registry, phase, nassign, latest, clock, lastRun>>
    /\ UNCHANGED aux

\* The except branch of update_convo, entered with exception e and the files as f:
\* the error message is written and the id returned; an exception the clause does
\* not name leaves update_convo. The locals of generate_speech are gone.
HandleError(r, e, f, raised) ==
    LET q == [req[r] EXCEPT !.pc = "done", !.clientExc = raised, !.ts = 0,
                            !.adapter = Adapter("None", 0)]
    IN  IF HandlerCatches(e)
        THEN /\ fs' = AddMessage(f, q.user, q.convo, ErrorMsg(e))
             /\ appended' = [appended EXCEPT ![<<q.user, q.convo>>] = Append(@, ErrorMsg(e))]
             /\ req' = [req EXCEPT ![r] = [q EXCEPT !.caught = e, !.ret = q.convo,
                                                    !.wrote = Append(@, ErrorMsg(e))]]
        ELSE /\ fs' = f
             /\ req' = [req EXCEPT ![r] = [q EXCEPT !.escaped = e]]
             /\ UNCHANGED appended

\* generate_speech up to the provider call: the timestamp is read, the TTS provider is
\* looked up, its client is built and its call is made.
CallProvider(r) ==
    /\ req[r].pc = "user_written"
    /\ LET a == DictGetItem(registry, TTSKey)
       IN  \E fo \in {"ok", "OpenAIError"} :
              IF a.cls = "KeyError"
              THEN HandleError(r, "KeyError", fs, None)
              ELSE IF ClientFactory(a.cls, fo) # "ok"
              THEN HandleError(r, ClientFactory(a.cls, fo), fs, None)
              ELSE /\ req' = [req EXCEPT ![r].pc = "calling", ![r].ts = clock,
                                         ![r].adapter = a, ![r].calls = @ + 1]
                   /\ UNCHANGED <<fs, appended>>
    /\ UNCHANGED <<registry, phase, nassign, latest, clock, lastRun>>
    /\ UNCHANGED aux

\* The provider call ends. Once call has returned, the raw response is appended to
\* its file (a failure of that is swallowed); then the audio is streamed to its file
\* and the assistant message is written, or the exception of the call or of the
\* stream reaches the except branch.
Finish(r) ==
    /\ req[r].pc = "calling"
    /\ \E co \in {"ok"} \cup Exceptions, raw \in BOOLEAN :
          LET q == req[r]
              out == AdapterCall(q.adapter.cls, co)
              path == SpeechFilePath(q.user, q.convo, q.ts)
              f1 == IF raw THEN append_raw_response(fs, q.user, q.convo) ELSE fs
          IN  IF out = "ok"
              THEN /\ fs' = AddMessage(StreamToFile(f1, path, q.text),
                                       q.user, q.convo, AudioMsg(path))
                   /\ appended' = [appended EXCEPT ![<<q.user, q.convo>>] =
                                        Append(@, AudioMsg(path))]
                   /\ req' = [req EXCEPT ![r].pc = "done", ![r].ret = q.convo,
                                         ![r].ts = 0, ![r].adapter = Adapter("None", 0),
                                         ![r].wrote = Append(@, AudioMsg(path))]
              ELSE HandleError(r, out, f1, co)
    /\ UNCHANGED <<registry, phase, nassign, latest, clock, lastRun>>
    /\ UNCHANGED aux

Next ==
    \/ SubclassInit
    \/ OverrideProvider
    \/ ReplaceTTS
    \/ Tick
    \/ \E r \in 1..MaxReq : Enter(r)
    \/ \E r \in 1..MaxReq : WriteUser(r)
    \/ \E r \in 1..MaxReq : CallProvider(r)
    \/ \E r \in 1..MaxReq : Finish(r)

Spec == Init /\ [][Next]_vars

\* ResponsesChat.update_convo: provider_spec defaults to "openai:responses" and is
\* passed on; the request then looks the key up in the registry.
ResponsesUpdateConvo ==
    /\ \E given \in BOOLEAN, k \in DOMAIN registry :
          LET key == IF given THEN k ELSE ResponsesKey
          IN  resolved' = [asked |-> TRUE, given |-> given, key |-> key,
                           found |-> DictGetItem(registry, key).cls # "KeyError"]
    /\ UNCHANGED <<core, history, formatted, tts, page>>

\* The registry alone, with the four methods run on whatever it holds.
NextAdapters ==
    \/ SubclassInit
    \/ OverrideProvider
    \/ ReplaceTTS
    \/ RunAdapter
    \/ ResponsesUpdateConvo

SpecAdapters == Init /\ [][NextAdapters]_vars

\* One more message in the history that will be formatted.
GrowHistory ==
    /\ Len(history) < MaxHist
    /\ \E m \in MessagePool : history' = Append(history, m)
    /\ formatted' = NoFormat
    /\ UNCHANGED <<core, resolved, tts, page>>

\* adapter.format_messages(history)
Format ==
    /\ \E cls \in AdapterClasses \cup DictEntries :
          formatted' = [cls |-> cls, out |-> FormatMessages(cls, history)]
    /\ UNCHANGED <<core, history, resolved, tts, page>>

\* A user presses Enter: n_submit of the text area changes, which triggers both
\* store_tts_settings and the callback that runs update_convo.
PressEnter(n) ==
    /\ ~tts.sub[n].submitted
    /\ \A k \in 1..(n - 1) : tts.sub[k].submitted
    /\ \E u \in Users, form \in FormValues :
          tts' = [tts EXCEPT !.sub[n] =
                     [NoSubmission EXCEPT !.submitted = TRUE, !.user = u, !.form = form]]
    /\ UNCHANGED <<core, history, formatted, resolved, page>>

\* store_tts_settings(n_submit, ...) for submission n
store_tts_settings(n) ==
    /\ tts.sub[n].submitted
    /\ ~tts.sub[n].stored
    /\ tts' = [tts EXCEPT !.current = SettingsOf(tts.sub[n].form),
                          !.sub[n].stored = TRUE]
    /\ UNCHANGED <<core, history, formatted, resolved, page>>

\* AdvancedSpeechGeneratorChat.update_convo for submission n: the current settings are
\* read and generate_speech makes the call with them.
AdvancedUpdateConvo(n) ==
    /\ tts.sub[n].submitted
    /\ ~tts.sub[n].spoken
    /\ tts' = [tts EXCEPT !.sub[n].spoken = TRUE,
                          !.sub[n].kwargs = CallKwargs(tts.current)]
    /\ UNCHANGED <<core, history, formatted, resolved, page>>

NextTTS ==
    \/ \E n \in 1..MaxSub : PressEnter(n)
    \/ \E n \in 1..MaxSub : store_tts_settings(n)
    \/ \E n \in 1..MaxSub : AdvancedUpdateConvo(n)

SpecTTS == Init /\ [][NextTTS]_vars

\* ---------------------------------------------------------------------------
\* The layout of the page: construction and set_layout.
\* ---------------------------------------------------------------------------

\* DashAIChat(): the default layout is installed and validated.
Construct ==
    /\ layout' = default_layout
    /\ lastSet' = Constructed
    /\ UNCHANGED <<core, history, formatted, resolved, tts>>

\* set_layout(l): the layout is assigned, then validated.
set_layout ==
    \E l \in Layouts :
        /\ layout' = l
        /\ lastSet' = [op |-> "set_layout", arg |-> l, exc |-> validate_layout(l)]
        /\ UNCHANGED <<core, history, formatted, resolved, tts>>

NextLayout ==
    \/ Construct
    \/ set_layout

SpecLayout == Init /\ [][NextLayout]_vars

NextFormat ==
    \/ GrowHistory
    \/ Format

SpecFormat == Init /\ [][NextFormat]_vars

\* ------------------------------------------------------------------ claims
IsPrefix(s, t) == Len(s) <= Len(t) /\ SubSeq(t, 1, Len(s)) = s

Convos == Users \X ConvoIds

\* C1: for every conversation, reloading it yields exactly the messages handed to
\* add_message so far, in the order they were handed over.
C1_ReloadYieldsAppended ==
    \A uc \in Convos : LoadMessages(fs, uc[1], uc[2]) = appended[uc]

\* A conversation that holds four messages, written by two update_convo calls.
C1_Witness ==
    \E uc \in Convos :
        /\ Len(appended[uc]) = 4
        /\ appended[uc][1].role = "user"
        /\ appended[uc][4].role = "assistant"

\* C2: a lookup-and-dispatch on a key reaches the adapter most recently assigned to
\* it, and an assignment leaves the entries under every other key as they were.
C2_OverwriteReplacesDispatch ==
    /\ [](lastRun.ran => lastRun.adapter = lastRun.expected)
    /\ [][/\ DOMAIN registry \subseteq DOMAIN registry'
          /\ Cardinality({k \in DOMAIN registry : registry'[k] # registry[k]}) +
             Cardinality(DOMAIN registry' \ DOMAIN registry) <= 1]_vars

\* A run on the TTS key after its adapter was replaced reaches the replacement.
C2_Witness ==
    /\ lastRun.ran
    /\ lastRun.key = TTSKey
    /\ lastRun.adapter.inst >= 2
    /\ registry[TTSKey] = lastRun.adapter

\* C3 (as claimed): for every registered adapter, the four methods run in sequence
\* with a client that is built and a call that returns give a string.
C3_EveryAdapterReturnsString ==
    (lastRun.ran /\ lastRun.factory = "ok" /\ lastRun.client = "ok")
        => lastRun.result = "str"

\* C4 (as claimed): every registered entry provides all four capabilities.
C4_AllFourCapabilities ==
    \A k \in DOMAIN registry : Caps(registry[k].cls) = FourCaps

\* "<vendor>:<api>": a str in two non-empty parts around one separator.
IsVendorApiString(k) ==
    /\ k.type = "str"
    /\ Len(k.items) = 3
    /\ k.items[2] = ":"
    /\ k.items[1] \notin {"", ":"}
    /\ k.items[3] \notin {"", ":"}

\* C5 (as claimed): every key of the registry is a string "<vendor>:<api>".
C5_KeysAreVendorApiStrings ==
    \A k \in DOMAIN registry : IsVendorApiString(k)

\* C6: in every step, each conversation's log before the step is a prefix of its
\* log after the step.
C6_AppendOnly ==
    [][\A uc \in Convos :
          IsPrefix(LoadMessages(fs, uc[1], uc[2]), LoadMessages(fs', uc[1], uc[2]))]_vars

\* A conversation whose log grew three times.
C6_Witness ==
    \E uc \in Convos : Len(LoadMessages(fs, uc[1], uc[2])) = 3

\* C7: when the provider call raises, the step that ends it appends exactly the
\* assistant error message to the request's conversation, nothing leaves
\* update_convo, and the conversation id is returned.
C7_ProviderErrorBecomesMessage ==
    [][\A r \in 1..MaxReq :
          (req[r].pc = "calling" /\ req'[r].pc = "done" /\ req'[r].clientExc # None) =>
             /\ req'[r].escaped = None
             /\ req'[r].caught # None
             /\ req'[r].ret = req[r].convo
             /\ LoadMessages(fs', req[r].user, req[r].convo) =
                    Append(LoadMessages(fs, req[r].user, req[r].convo),
                           ErrorMsg(req'[r].caught))]_vars

\* A request whose provider call raised and whose log ends with the error message.
C7_Witness ==
    \E r \in 1..MaxReq :
        /\ req[r].pc = "done"
        /\ req[r].clientExc = "RateLimitError"
        /\ req[r].ret = req[r].convo
        /\ LET log == LoadMessages(fs, req[r].user, req[r].convo)
           IN  Len(log) >= 2 /\ log[Len(log)] = ErrorMsg("RateLimitError")

\* C8: one update_convo makes the provider call at most once, and the exception the
\* client raised is the one the call site receives.
C8_NoRetryNoWrapping ==
    \A r \in 1..MaxReq :
        /\ req[r].calls <= 1
        /\ (req[r].pc = "done" /\ req[r].clientExc # None) =>
               (req[r].calls = 1 /\ req[r].caught = req[r].clientExc)

\* A request that ended after one failed call, and one that ended after one
\* successful call.
C8_Witness ==
    \E r1, r2 \in 1..MaxReq :
        /\ req[r1].pc = "done" /\ req[r1].calls = 1
        /\ req[r1].clientExc = "APIConnectionError"
        /\ req[r2].pc = "done" /\ req[r2].calls = 1 /\ req[r2].clientExc = None

\* C9: a step changes the log of a conversation only if a request on that very
\* conversation took the step.
C9_OnlyOwnConversationChanges ==
    [][\A uc \in Convos :
          LoadMessages(fs', uc[1], uc[2]) # LoadMessages(fs, uc[1], uc[2]) =>
             \E r \in 1..MaxReq :
                /\ req'[r] # req[r]
                /\ req[r].user = uc[1]
                /\ req[r].convo = uc[2]]_vars

\* Two requests in flight on conversations of two users with the same id, one of
\* which has written its answer.
C9_Witness ==
    \E r1, r2 \in 1..MaxReq :
        /\ req[r1].pc = "done" /\ req[r2].pc = "calling"
        /\ req[r1].user # req[r2].user
        /\ req[r1].convo = req[r2].convo
        /\ Len(LoadMessages(fs, req[r1].user, req[r1].convo)) = 2
        /\ Len(LoadMessages(fs, req[r2].user, req[r2].convo)) = 1


C11_ChatFormatKeepsRoleAndContent ==
    formatted.cls \in {"OpenAIChatCompletions", "AnthropicChatCompletions",
                       "dict:chat.completions"} =>
        /\ formatted.out.kind = "list"
        /\ Len(formatted.out.list) = Len(history)
        /\ \A i \in 1..Len(history) :
              /\ DOMAIN formatted.out.list[i] = {"role", "content"}
              /\ formatted.out.list[i].role = history[i].role
              /\ formatted.out.list[i].content = history[i].content

\* A history of two messages, an audio message among them, formatted by the
\* Anthropic adapter.
C11_Witness ==
    /\ formatted.cls = "AnthropicChatCompletions"
    /\ Len(history) = 2
    /\ history[1].role = "user"
    /\ "audio_file" \in DOMAIN history[2]
    /\ Len(formatted.out.list) = 2

\* The pieces of a string between its newlines, as str.split("\n") gives them.
SplitLines(s) ==
    LET RECURSIVE go(_, _)
        go(i, cur) == IF i > Len(s) THEN <<cur>>
                      ELSE IF s[i] = "\n" THEN <<cur>> \o go(i + 1, <<>>)
                      ELSE go(i + 1, Append(cur, s[i]))
    IN  go(1, <<>>)

\* C12: format_messages of the prompt-style adapter gives, for the empty history,
\* the empty string, and for n messages the n segments "<role>: <content>" in
\* history order with one newline between neighbours and none at either end.
C12_PromptIsSegmentsJoinedByNewlines ==
    formatted.cls \in PromptFormatClasses =>
        /\ formatted.out.kind = "str"
        /\ history = <<>> => formatted.out.prompt = <<>>
        /\ history # <<>> =>
              LET p == formatted.out.prompt
                  segs == SplitLines(p)
              IN  /\ p[1] # "\n"
                  /\ p[Len(p)] # "\n"
                  /\ Len(segs) = Len(history)
                  /\ \A i \in 1..Len(history) :
                        segs[i] = <<history[i].role, ": ">> \o history[i].content

\* A history of two messages flattened by OpenAIResponses into two segments.
C12_Witness ==
    /\ formatted.cls = "OpenAIResponses"
    /\ Len(history) = 2
    /\ history[1] # history[2]
    /\ Len(SplitLines(formatted.out.prompt)) = 2

\* C13 (as claimed): when ResponsesChat.update_convo is called without a
\* provider_spec, the key "openai:responses" it passes on is found in the registry.
C13_ResponsesKeyResolves ==
    (resolved.asked /\ ~resolved.given) =>
        (resolved.key = ResponsesKey /\ resolved.found)

\* C14 (as claimed): the speech generated for a submission is made with the
\* settings of that same submission, in whatever order the two callbacks of a
\* submit run and however the submissions of several users interleave.
C14_SpeechUsesOwnSettings ==
    \A n \in 1..MaxSub :
        tts.sub[n].spoken => tts.sub[n].kwargs = CallKwargs(SettingsOf(tts.sub[n].form))

\* The log alternates user, assistant, starting with user.
Alternates(log) ==
    \A i \in 1..Len(log) : log[i].role = IF i % 2 = 1 THEN "user" ELSE "assistant"

\* The number of messages the update_convo calls on a conversation have written.
WrittenOn(uc) ==
    LET RECURSIVE sum(_)
        sum(r) == IF r = 0 THEN 0
                  ELSE sum(r - 1) +
                       (IF req[r].pc \notin {"idle", "entered"}
                           /\ <<req[r].user, req[r].convo>> = uc
                        THEN Len(req[r].wrote) ELSE 0)
    IN  sum(MaxReq)

\* What one update_convo call appends: its user message before the provider is
\* invoked, then exactly one assistant message (audio on success, the error
\* otherwise), and nothing else is in the logs.
EachCallWritesUserThenAssistant ==
    /\ \A r \in 1..MaxReq :
          /\ req[r].calls > 0 => (Len(req[r].wrote) >= 1 /\ req[r].wrote[1] = UserMsg(req[r].text))
          /\ req[r].pc \in {"user_written", "calling"} => req[r].wrote = <<UserMsg(req[r].text)>>
          /\ req[r].pc = "done" =>
                /\ Len(req[r].wrote) = 2
                /\ req[r].wrote[1] = UserMsg(req[r].text)
                /\ req[r].wrote[2].role = "assistant"
                /\ IF req[r].caught = None
                   THEN "audio_file" \in DOMAIN req[r].wrote[2]
                   ELSE req[r].wrote[2] = ErrorMsg(req[r].caught)
    /\ \A uc \in Convos : Len(LoadMessages(fs, uc[1], uc[2])) = WrittenOn(uc)

\* C15: each update_convo call appends its user message and then exactly
\* one assistant message, and every log so built alternates user, assistant.
C15_TwoMessagesAndLogAlternates ==
    /\ EachCallWritesUserThenAssistant
    /\ \A uc \in Convos :
          (\A r \in 1..MaxReq : <<req[r].user, req[r].convo>> = uc => req[r].pc \in {"idle", "done"})
             => Alternates(LoadMessages(fs, uc[1], uc[2]))

\* What does hold of the order: the log of a conversation alternates user, assistant
\* once its calls have ended, provided no call on it wrote its user message while
\* another call on it was awaiting its answer.
AlternatesUnlessOverlap ==
    \A uc \in Convos :
        (\A r \in 1..MaxReq :
            <<req[r].user, req[r].convo>> = uc =>
               (req[r].pc \in {"idle", "done"} /\ ~req[r].overlap))
           => Alternates(LoadMessages(fs, uc[1], uc[2]))

\* The string ids reachable from a component through children: the components of
\* a list of children, or a single child.
RECURSIVE ReachableIds(_)
ReachableIds(c) ==
    LET own == IF c.id.kind = "str" /\ c.id.value # "" THEN {c.id.value} ELSE {}
        kids == IF c.children.kind \in {"list", "one"}
                THEN {c.children.items[n] : n \in 1..Len(c.children.items)}
                ELSE {}
    IN  own \cup UNION {ReachableIds(k) : k \in kids}

HasRequiredIds(l) == required_ids \subseteq ReachableIds(l)

\* C16: set_layout raises ValueError exactly when a required id is not reachable
\* from the layout root through children, and returns normally otherwise.
C16_ValueErrorExactlyWhenIdMissing ==
    lastSet.op = "set_layout" =>
        /\ (lastSet.exc = "ValueError") <=> ~HasRequiredIds(lastSet.arg)
        /\ HasRequiredIds(lastSet.arg) => lastSet.exc = None

\* What does hold of set_layout: on a layout without pattern-matching (dict) ids
\* it raises ValueError exactly when a required id is not reachable.
HasDictId(l) == collect_ids(l).exc = "TypeError"

ValueErrorExactlyWhenIdMissingWithoutDictIds ==
    (lastSet.op = "set_layout" /\ ~HasDictId(lastSet.arg)) =>
        /\ (lastSet.exc = "ValueError") <=> ~HasRequiredIds(lastSet.arg)
        /\ HasRequiredIds(lastSet.arg) => lastSet.exc = None

\* C17: a set_layout call that raises leaves the layout as it was, so the installed
\* layout always contains every required id.
C17_InstalledLayoutHasRequiredIds ==
    HasRequiredIds(layout)

\* C18: the layout built by default_layout contains every required id, so the
\* construction of DashAIChat never fails layout validation.
C18_DefaultLayoutPassesValidation ==
    lastSet.op = "__init__" =>
        /\ lastSet.exc = None
        /\ layout = default_layout
        /\ HasRequiredIds(layout)

\* A DashAIChat constructed with the default layout, the chat area under the
\* loading spinner among its components.
C18_Witness ==
    /\ lastSet.op = "__init__"
    /\ lastSet.exc = None
    /\ ReachableIds(layout) = required_ids

====
